---- MODULE Spec2Model ----
(***************************************************************************)
(* A model of beacon's Tensor (src/beacon/tensor/tensor.py) and of the SGD *)
(* optimizer (src/beacon/optim/sgd.py).                                    *)
(*                                                                         *)
(* The heap of Tensor objects is four sequences indexed by object id, one  *)
(* per field of Tensor: data, requires_grad, nodes and grad.  A numpy      *)
(* array is a record [shape, vals] with vals in row-major order; floats    *)
(* are modelled by integers.  Arrays of rank 0, 1 and 2 are modelled.      *)
(* numpy is one that still has the alias np.float (before 1.24).           *)
(***************************************************************************)
EXTENDS Integers, Sequences, FiniteSets, TLC

VARIABLES data, requires_grad, nodes, grad, parameters, lr, op

vars == <<data, requires_grad, nodes, grad, parameters, lr, op>>

(* Bounds of the model. *)
MaxTensors == 2
MaxEdges == 2
MaxVal == 2

(***************************************************************************)
(* numpy arrays                                                            *)
(***************************************************************************)

(* Python's None, for the grad field and for absent values. *)
None == [shape |-> <<>>, vals |-> <<>>]

Arr(s, v) == [shape |-> s, vals |-> v]

RECURSIVE Prod(_)
Prod(s) == IF s = <<>> THEN 1 ELSE Head(s) * Prod(Tail(s))

(* ndarray.size *)
Size(a) == Prod(a.shape)

(* len(arr.shape) *)
Rank(a) == Len(a.shape)

(* The shape left-padded with 1s to two dimensions, as broadcasting aligns it. *)
Pad2(s) == IF Len(s) = 0 THEN <<1, 1>> ELSE IF Len(s) = 1 THEN <<1, s[1]>> ELSE s

Max2(x, y) == IF x >= y THEN x ELSE y

DimOk(x, y) == x = y \/ x = 1 \/ y = 1

(* numpy's broadcasting rule: can the two shapes be broadcast together. *)
Broadcastable(s1, s2) ==
    DimOk(Pad2(s1)[1], Pad2(s2)[1]) /\ DimOk(Pad2(s1)[2], Pad2(s2)[2])

(* The broadcast shape: the rank is the larger rank, each dimension the larger one. *)
BroadcastShape(s1, s2) ==
    LET r == Max2(Pad2(s1)[1], Pad2(s2)[1])
        c == Max2(Pad2(s1)[2], Pad2(s2)[2])
    IN IF Max2(Len(s1), Len(s2)) = 0 THEN <<>>
       ELSE IF Max2(Len(s1), Len(s2)) = 1 THEN <<c>>
       ELSE <<r, c>>

(* The element of a at row i, column j (from 0) of a broadcast result. *)
Elem(a, i, j) ==
    LET p == Pad2(a.shape)
    IN a.vals[(IF p[1] = 1 THEN 0 ELSE i) * p[2] + (IF p[2] = 1 THEN 0 ELSE j) + 1]

(* The arithmetic operators the code applies to arrays. *)
Plus == "+"
Minus == "-"
Times == "*"

Apply(f, x, y) == IF f = Plus THEN x + y ELSE IF f = Minus THEN x - y ELSE x * y

(* An elementwise binary operation with broadcasting; the shapes are broadcastable. *)
Elementwise(f, a, b) ==
    LET s == BroadcastShape(a.shape, b.shape)
        p == Pad2(s)
    IN Arr(s, [k \in 1..(p[1] * p[2]) |->
                  Apply(f, Elem(a, (k - 1) \div p[2], (k - 1) % p[2]),
                           Elem(b, (k - 1) \div p[2], (k - 1) % p[2]))])

(* np.zeros_like / np.ones_like *)
zeros_like(a) == Arr(a.shape, [k \in 1..Size(a) |-> 0])
ones_like(a) == Arr(a.shape, [k \in 1..Size(a) |-> 1])

(***************************************************************************)
(* Python values passed to the API                                         *)
(***************************************************************************)

(* A Python argument: None, a float, a (nested) list of floats, a numpy    *)
(* array, or a Tensor object.  A list carries the shape of its nesting.    *)
(* A Tensor argument is either a Tensor held by nothing else (of = 0, its  *)
(* data in shape and vals) or the Tensor object stored in the grad field   *)
(* of heap object `of`, whose data is read from the heap when it is used.  *)
PyNone == [py |-> "None", shape |-> <<>>, vals |-> <<>>, of |-> 0]
PyFloat(x) == [py |-> "float", shape |-> <<>>, vals |-> <<x>>, of |-> 0]
PyList(s, v) == [py |-> "list", shape |-> s, vals |-> v, of |-> 0]
PyNdarray(a) == [py |-> "ndarray", shape |-> a.shape, vals |-> a.vals, of |-> 0]
PyTensor(a) == [py |-> "Tensor", shape |-> a.shape, vals |-> a.vals, of |-> 0]
PyGradOf(u) == [py |-> "Tensor", shape |-> <<>>, vals |-> <<>>, of |-> u]

(* np.array(data, dtype=np.float) of a float or a (nested) list. *)
np_array(d) == Arr(d.shape, d.vals)

(* The data of the Tensor t in heap h. *)
TensorData(h, t) == IF t.of > 0 THEN h.grad[t.of] ELSE Arr(t.shape, t.vals)

(* bool(x), as `if grad` evaluates it: "True", "False", or the ValueError   *)
(* numpy raises for the truth value of an array of more than one element.  *)
(* Tensor defines neither __bool__ nor __len__, so a Tensor is true.       *)
Truth(x) ==
    IF x.py = "None" THEN "False"
    ELSE IF x.py = "Tensor" THEN "True"
    ELSE IF x.py = "float" THEN (IF x.vals[1] # 0 THEN "True" ELSE "False")
    ELSE IF x.py = "list" THEN (IF x.shape[1] # 0 THEN "True" ELSE "False")
    ELSE IF Prod(x.shape) > 1 THEN "ValueError"
    ELSE IF Prod(x.shape) = 0 THEN "False"
    ELSE IF x.vals[1] # 0 THEN "True" ELSE "False"

(***************************************************************************)
(* Tensor                                                                  *)
(***************************************************************************)

Heap == [data |-> data, requires_grad |-> requires_grad, nodes |-> nodes, grad |-> grad]

Tensors(h) == 1..Len(h.data)

(* Tensor._to_numpy_ndarray *)
to_numpy_ndarray(d) ==
    IF d.py = "ndarray" THEN Arr(d.shape, d.vals)
    ELSE LET arr == np_array(d)
         IN IF Len(arr.shape) = 1 THEN Arr(<<1, arr.shape[1]>>, arr.vals) ELSE arr

(* Tensor._to_tensor: the Tensor itself, or Tensor(data=tensor). *)
to_tensor(x) == IF x.py = "Tensor" THEN x ELSE PyTensor(to_numpy_ndarray(x))

(* zero_grad that allocates grad only when there is none. *)
zero_grad_keep(h, self) ==
    IF h.grad[self] = None THEN [h EXCEPT !.grad[self] = zeros_like(h.data[self])] ELSE h

(* Tensor.zero_grad *)
zero_grad(h, self) == [h EXCEPT !.grad[self] = zeros_like(h.data[self])]

(* Tensor.__init__: the heap with the new object appended. *)
Tensor_init(h, d, rg, nd) ==
    LET self == Len(h.data) + 1
        h1 == [data |-> Append(h.data, to_numpy_ndarray(d)),
               requires_grad |-> Append(h.requires_grad, rg),
               nodes |-> Append(h.nodes, nd),
               grad |-> Append(h.grad, None)]
    IN IF rg THEN zero_grad(h1, self) ELSE h1

(* The outcome of a call: the heap it leaves, the exception it raised      *)
(* ("none" if it returned), its return value, and for backward the data of *)
(* the gradient tensor of line 54 as it was when line 55 read it.          *)
Return(h, ret, seed) == [h |-> h, raised |-> "none", ret |-> ret, seed |-> seed]
Raise(h, e) == [h |-> h, raised |-> e, ret |-> None, seed |-> None]

(* backward without the check of requires_grad. *)
RequiresGradCheck_none(h, self) == TRUE

(* `if not self.requires_grad` (line 52): does backward go on. *)
RequiresGradCheck(h, self) == h.requires_grad[self]

(* a += b on ndarrays succeeds when b broadcasts to the shape of a. *)
CanIAdd(a, b) ==
    Broadcastable(a.shape, b.shape) /\ BroadcastShape(a.shape, b.shape) = a.shape

(* Accumulation that adds into self.data as well as into self.grad.data. *)
Accumulate_data(h, self, g) ==
    [h EXCEPT !.grad[self] = Elementwise(Plus, @, g),
              !.data[self] = Elementwise(Plus, @, g)]

(* self.grad.data += grad.data (line 55) *)
Accumulate(h, self, g) == [h EXCEPT !.grad[self] = Elementwise(Plus, @, g)]

(* node.df of a graph edge: the derivative functions of the model multiply *)
(* the upstream gradient by a constant.                                    *)
Df(k, g) == Arr(g.shape, [i \in 1..Size(g) |-> k * g.vals[i]])

(* Tensor.backward *)
RECURSIVE backward(_, _, _)
RECURSIVE BackwardNodes(_, _, _, _)
backward(h, self, g) ==
    IF ~RequiresGradCheck(h, self) THEN Raise(h, "RuntimeError")
    ELSE IF Truth(g) = "ValueError" THEN Raise(h, "ValueError")
    ELSE LET t == IF Truth(g) = "True" THEN to_tensor(g)
                  ELSE PyTensor(ones_like(h.data[self]))
             seed == TensorData(h, t)
         IN IF h.grad[self] = None THEN Raise(h, "AttributeError")
            ELSE IF ~CanIAdd(h.grad[self], seed) THEN Raise(h, "ValueError")
            ELSE LET r == BackwardNodes(Accumulate(h, self, seed), self, t, 1)
                 IN [r EXCEPT !.seed = IF r.raised = "none" THEN seed ELSE None]

(* for node in self.nodes: node.tensor.backward(Tensor(data=node.df(grad.data))) *)
BackwardNodes(h, self, t, i) ==
    IF i > Len(h.nodes[self]) THEN Return(h, None, None)
    ELSE LET node == h.nodes[self][i]
             r == backward(h, node.tensor, PyTensor(Df(node.df, TensorData(h, t))))
         IN IF r.raised # "none" THEN r ELSE BackwardNodes(r.h, self, t, i + 1)

(* Tensor.item *)
item(h, self) ==
    IF h.data[self].shape # <<>> THEN Raise(h, "RuntimeError")
    ELSE Return(h, h.data[self], None)

(* beacon.tensor.functions.mul on two untracked tensors: the data of the result. *)
mul(a, b) == Elementwise(Times, a, b)

(* Tensor.__rmul__: mul(self._to_tensor(t), self), the result a new Tensor. *)
rmul(h, self, t) == PyTensor(mul(TensorData(h, to_tensor(t)), TensorData(h, self)))

(* __isub__ that adds. *)
isub_plus(h, self, t) ==
    [h EXCEPT !.data[self] = Elementwise(Plus, @, TensorData(h, to_tensor(t)))]

(* Tensor.__isub__: self.data = self.data - self._to_tensor(t).data *)
isub(h, self, t) ==
    [h EXCEPT !.data[self] = Elementwise(Minus, @, TensorData(h, to_tensor(t)))]

(***************************************************************************)
(* SGD                                                                     *)
(***************************************************************************)

(* The outcome of SGD.step: the heap, the parameter list and the exception. *)
StepResult(h, ps, e) == [h |-> h, parameters |-> ps, raised |-> e]

(* SGD.step from the i-th parameter on.  float * None raises TypeError;    *)
(* `parameter -= ...` rebinds only the loop variable (to the None that     *)
(* __isub__ returns), so the parameter list keeps its objects.             *)
RECURSIVE StepFrom(_, _, _, _)
StepFrom(h, ps, l, i) ==
    IF i > Len(ps) THEN StepResult(h, ps, "none")
    ELSE LET p == ps[i]
         IN IF h.grad[p] = None THEN StepResult(h, ps, "TypeError")
            ELSE LET t == rmul(h, PyGradOf(p), PyFloat(l))
                 IN IF ~Broadcastable(h.data[p].shape, t.shape)
                    THEN StepResult(h, ps, "ValueError")
                    ELSE StepFrom(isub(h, p, t), ps, l, i + 1)

(* SGD.step *)
step(h, ps, l) == StepFrom(h, ps, l, 1)

(***************************************************************************)
(* The calls a program makes                                               *)
(***************************************************************************)

(* The arrays the model's programs use as data and as seeds. *)
Scalar1 == Arr(<<>>, <<1>>)
Vec11 == Arr(<<2>>, <<1, 1>>)
Mat0 == Arr(<<1, 1>>, <<0>>)
Mat1 == Arr(<<1, 1>>, <<1>>)

(* The data arguments of Tensor(...): a bare float, flat lists, a nested   *)
(* list, and numpy arrays of rank 0, 1 and 2.                              *)
DataInputs ==
    {PyFloat(1), PyList(<<1>>, <<0>>), PyList(<<1>>, <<1>>), PyList(<<1, 1>>, <<1>>),
     PyNdarray(Scalar1), PyNdarray(Vec11), PyNdarray(Mat0)}

(* The constants by which the model's derivative functions multiply. *)
DfScales == {1, 2}

(* The nodes arguments of Tensor(...) when n objects exist: lists of       *)
(* ComputationalGraphNode(tensor, df) over the existing Tensors.           *)
NodeLists(n) ==
    UNION {[1..k -> [tensor : 1..n, df : DfScales]] : k \in 0..MaxEdges}

(* The grad arguments of backward: omitted, a float, a flat list, a numpy  *)
(* array, a new Tensor, or the grad Tensor of an existing object.          *)
SeedInputs(h) ==
    {PyNone, PyFloat(0), PyFloat(1), PyList(<<1>>, <<0>>)}
    \cup {PyNdarray(a) : a \in {Mat0, Mat1, Vec11}}
    \cup {PyTensor(a) : a \in {Mat0, Mat1, Vec11}}
    \cup {PyGradOf(u) : u \in {v \in Tensors(h) : h.grad[v] # None}}

(* The learning rates of the model's optimizers. *)
LrValues == {1, 2}

(* The parameter lists of the model's optimizers: lists without repetition. *)
ParameterLists(n) ==
    {ps \in UNION {[1..k -> 1..n] : k \in 1..n} :
        \A i, j \in DOMAIN ps : i # j => ps[i] # ps[j]}

(* Every number held stays within the model's range. *)
InRange(h) ==
    \A v \in Tensors(h) :
        /\ \A i \in DOMAIN h.data[v].vals : h.data[v].vals[i] \in -MaxVal..MaxVal
        /\ \A i \in DOMAIN h.grad[v].vals : h.grad[v].vals[i] \in -MaxVal..MaxVal

(* The last call made: its name, its receiver, the exception it raised,    *)
(* its return value and, for zero_grad, the grad it replaced.              *)
Call(name, self, raised, ret, pre) ==
    [name |-> name, self |-> self, raised |-> raised, ret |-> ret, pre |-> pre]

SetHeap(h) ==
    /\ data' = h.data
    /\ requires_grad' = h.requires_grad
    /\ nodes' = h.nodes
    /\ grad' = h.grad

Init ==
    /\ data = <<>>
    /\ requires_grad = <<>>
    /\ nodes = <<>>
    /\ grad = <<>>
    /\ parameters = <<>>
    /\ lr = 0
    /\ op = Call("start", 0, "none", None, None)

(* Tensor(d, requires_grad=rg, nodes=nd) *)
Construct(d, rg, nd) ==
    /\ Len(data) < MaxTensors
    /\ SetHeap(Tensor_init(Heap, d, rg, nd))
    /\ op' = Call("Tensor", Len(data) + 1, "none", None, None)
    /\ UNCHANGED <<parameters, lr>>

(* self.zero_grad() *)
ZeroGrad(self) ==
    /\ SetHeap(zero_grad(Heap, self))
    /\ op' = Call("zero_grad", self, "none", None, grad[self])
    /\ UNCHANGED <<parameters, lr>>

(* self.backward(g) *)
Backward(self, g) ==
    LET r == backward(Heap, self, g)
    IN /\ InRange(r.h)
       /\ SetHeap(r.h)
       /\ op' = Call("backward", self, r.raised, None, None)
       /\ UNCHANGED <<parameters, lr>>

(* self.item() *)
Item(self) ==
    LET r == item(Heap, self)
    IN /\ SetHeap(r.h)
       /\ op' = Call("item", self, r.raised, r.ret, None)
       /\ UNCHANGED <<parameters, lr>>

(* SGD(ps, lr=l): the model's program makes one optimizer. *)
NewSGD(ps, l) ==
    /\ lr = 0
    /\ parameters' = ps
    /\ lr' = l
    /\ op' = Call("SGD", 0, "none", None, None)
    /\ UNCHANGED <<data, requires_grad, nodes, grad>>

(* optimizer.step() *)
Step ==
    /\ lr # 0
    /\ LET r == step(Heap, parameters, lr)
       IN /\ InRange(r.h)
          /\ SetHeap(r.h)
          /\ parameters' = r.parameters
          /\ op' = Call("step", 0, r.raised, None, None)
    /\ UNCHANGED lr

(* A program that uses the Tensor API. *)
Next ==
    \/ \E d \in DataInputs, rg \in BOOLEAN, nd \in NodeLists(Len(data)) : Construct(d, rg, nd)
    \/ \E self \in Tensors(Heap) : ZeroGrad(self)
    \/ \E self \in Tensors(Heap), g \in SeedInputs(Heap) : Backward(self, g)
    \/ \E self \in Tensors(Heap) : Item(self)

Spec == Init /\ [][Next]_vars

(* A training program: leaf Tensors, backward passes and an SGD optimizer. *)
NextSGD ==
    \/ \E d \in DataInputs, rg \in BOOLEAN : Construct(d, rg, <<>>)
    \/ \E self \in Tensors(Heap) : ZeroGrad(self)
    \/ \E self \in Tensors(Heap), g \in SeedInputs(Heap) : Backward(self, g)
    \/ \E ps \in ParameterLists(Len(data)), l \in LrValues : NewSGD(ps, l)
    \/ Step

SpecSGD == Init /\ [][NextSGD]_vars

(***************************************************************************)
(* Properties                                                              *)
(***************************************************************************)

(* The heap after the step. *)
HeapP == [data |-> data', requires_grad |-> requires_grad', nodes |-> nodes', grad |-> grad']

(* The Tensors reached from v along recorded edges, v included. *)
RECURSIVE Reach(_, _)
Reach(h, v) ==
    {v} \cup UNION {Reach(h, h.nodes[v][i].tensor) : i \in DOMAIN h.nodes[v]}

(* The seed a caller supplies: the argument's array, all ones if omitted. *)
SuppliedSeed(h, self, g) ==
    IF g.py = "None" THEN ones_like(h.data[self]) ELSE TensorData(h, to_tensor(g))

(* The sum, over every edge path from x to v, of the path's derivative     *)
(* functions composed and applied to s.                                    *)
RECURSIVE PathSum(_, _, _, _)
RECURSIVE EdgeSum(_, _, _, _, _)
PathSum(h, x, v, s) ==
    Elementwise(Plus, IF x = v THEN s ELSE zeros_like(s), EdgeSum(h, x, v, s, 1))

EdgeSum(h, x, v, s, i) ==
    IF i > Len(h.nodes[x]) THEN zeros_like(s)
    ELSE Elementwise(Plus,
                     PathSum(h, h.nodes[x][i].tensor, v, Df(h.nodes[x][i].df, s)),
                     EdgeSum(h, x, v, s, i + 1))

(* The seed has the shape of the root's data, and so has the data of every *)
(* value reached from the root.                                            *)
SameShapes(h, self, g) ==
    /\ SuppliedSeed(h, self, g).shape = h.data[self].shape
    /\ \A v \in Reach(h, self) : h.data[v].shape = h.data[self].shape

NonZero(a) == a # None /\ \E i \in DOMAIN a.vals : a.vals[i] # 0

(* C1: one backward(seed) on a tracked root adds to the grad of every      *)
(* value reached from the root the sum over the edge paths to it of the    *)
(* composed derivative functions applied to the seed.                      *)
C1_PathSums ==
    [][\A self \in Tensors(Heap), g \in SeedInputs(Heap) :
          (/\ op'.name = "backward" /\ op'.self = self
           /\ requires_grad[self]
           /\ SameShapes(Heap, self, g)
           /\ Backward(self, g))
          => /\ op'.raised = "none"
             /\ \A v \in Reach(Heap, self) :
                   grad'[v] = Elementwise(Plus, grad[v],
                                  PathSum(Heap, self, v, SuppliedSeed(Heap, self, g)))]_vars

(* C2: backward on a value whose requires_grad is false raises and leaves  *)
(* data, grad, nodes and requires_grad of every value as they were.        *)
C2_UntrackedBackwardFails ==
    [][(op'.name = "backward" /\ ~requires_grad[op'.self])
          => /\ op'.raised = "RuntimeError"
             /\ data' = data
             /\ grad' = grad
             /\ nodes' = nodes
             /\ requires_grad' = requires_grad]_vars

C2_Witness ==
    /\ op.name = "backward"
    /\ op.raised = "RuntimeError"
    /\ ~requires_grad[op.self]
    /\ grad[op.self] # None

(* C3: zero_grad leaves grad all zeros with the shape of data, whatever    *)
(* was accumulated; a second zero_grad changes nothing; and a backward on  *)
(* the value right after its zero_grad leaves in its grad that call's seed *)
(* alone.                                                                  *)
C3_ZeroGradResets ==
    [][/\ op'.name = "zero_grad"
          => /\ grad'[op'.self] = zeros_like(data'[op'.self])
             /\ grad'[op'.self].shape = data'[op'.self].shape
             /\ zero_grad(HeapP, op'.self) = HeapP
       /\ (op.name = "zero_grad" /\ op'.name = "backward" /\ op'.self = op.self
              /\ op'.raised = "none")
          => \E g \in SeedInputs(Heap) :
                /\ Backward(op.self, g)
                /\ grad'[op.self] = Elementwise(Plus, zeros_like(data[op.self]),
                                        backward(Heap, op.self, g).seed)]_vars

C3_Witness ==
    /\ op.name = "zero_grad"
    /\ NonZero(op.pre)
    /\ grad[op.self] = zeros_like(data[op.self])

(* C4: whenever a seed is supplied, that seed is what backward adds to the *)
(* root's grad.                                                            *)
C4_SuppliedSeedUsed ==
    [][\A self \in Tensors(Heap), g \in SeedInputs(Heap) :
          (/\ op'.name = "backward" /\ op'.self = self /\ op'.raised = "none"
           /\ g.py # "None"
           /\ Backward(self, g))
          => /\ CanIAdd(grad[self], SuppliedSeed(Heap, self, g))
             /\ grad'[self] = Elementwise(Plus, grad[self], SuppliedSeed(Heap, self, g))]_vars

(* C5: the data of every Tensor has rank 2 or more. *)
C5_RankAtLeast2 == \A v \in Tensors(Heap) : Rank(data[v]) >= 2

(* C6: grad is None exactly when requires_grad is false. *)
C6_GradIffRequiresGrad ==
    \A v \in Tensors(Heap) : (grad[v] # None) <=> requires_grad[v]

(* C7: item raises exactly when the array holds more than one element, and *)
(* otherwise returns the element.                                          *)
C7_ItemFailsIffManyElements ==
    op.name = "item"
        => /\ (op.raised # "none") <=> (Size(data[op.self]) > 1)
           /\ Size(data[op.self]) = 1 => op.ret.vals = data[op.self].vals

(* C8: a step sets the data of each parameter to data - lr * grad.data,    *)
(* keeps its shape, and changes nothing else: no grad, no nodes, no        *)
(* requires_grad, not the parameter list, no value outside the list.       *)
C8_StepUpdatesOnlyData ==
    [][op'.name = "step"
          => /\ grad' = grad
             /\ nodes' = nodes
             /\ requires_grad' = requires_grad
             /\ parameters' = parameters
             /\ \A v \in Tensors(Heap) :
                   (\A i \in DOMAIN parameters : parameters[i] # v) => data'[v] = data[v]
             /\ op'.raised = "none"
                   => \A i \in DOMAIN parameters :
                         LET p == parameters[i]
                         IN data'[p] = Arr(data[p].shape,
                                [k \in 1..Size(data[p]) |->
                                    data[p].vals[k] - lr * grad[p].vals[k]])]_vars

C8_Witness ==
    /\ op.name = "step"
    /\ op.raised = "none"
    /\ \E i \in DOMAIN parameters : NonZero(grad[parameters[i]])
    /\ \E v \in Tensors(Heap) : \A i \in DOMAIN parameters : parameters[i] # v

(* The array of the seed argument g is the same before and after the step. *)
SeedUnchanged(g) ==
    g.py # "None" => TensorData(HeapP, to_tensor(g)) = TensorData(Heap, to_tensor(g))

(* Backward leaves data, nodes and requires_grad of every value, and the   *)
(* grad of every value not reached from the root.                          *)
BackwardFrame(self) ==
    /\ data' = data
    /\ nodes' = nodes
    /\ requires_grad' = requires_grad
    /\ \A v \in Tensors(Heap) \ Reach(Heap, self) : grad'[v] = grad[v]

(* C9 as stated: a backward changes only grads, only of the values reached *)
(* from the root, and leaves the supplied seed unchanged: no call          *)
(* backward(g) is a step that changes the array of g.                      *)
C9_BackwardChangesOnlyGrad ==
    [][op'.name = "backward"
          => /\ BackwardFrame(op'.self)
             /\ \A g \in SeedInputs(Heap) :
                   ~SeedUnchanged(g) => ~Backward(op'.self, g)]_vars

(* C9 as amended: the same, the seed being left unchanged unless it is the *)
(* grad Tensor of a value reached from the root.                           *)
C9_BackwardChangesOnlyGradUnaliased ==
    [][op'.name = "backward"
          => /\ BackwardFrame(op'.self)
             /\ \A g \in SeedInputs(Heap) :
                   (g.of \notin Reach(Heap, op'.self) /\ ~SeedUnchanged(g))
                       => ~Backward(op'.self, g)]_vars

C9_Witness ==
    /\ op.name = "backward"
    /\ op.raised = "none"
    /\ NonZero(grad[op.self])
    /\ \E v \in Tensors(Heap) \ Reach(Heap, op.self) : NonZero(grad[v])

(* C10: a backward from a tracked root that reaches a value whose          *)
(* requires_grad is false stops there and completes without that error.    *)
C10_UntrackedReachedIsLeaf ==
    (/\ op.name = "backward"
     /\ requires_grad[op.self]
     /\ \E v \in Reach(Heap, op.self) : ~requires_grad[v])
    => op.raised # "RuntimeError"

====
